---------------------------- MODULE Spec2Model ----------------------------
(***************************************************************************)
(* A model of minimal-json-schema: the schema validator (src/schema.js)    *)
(* and the data validator (src/object.js).  Both are pure recursive        *)
(* functions over JavaScript values; they are modelled as operators over   *)
(* tagged records that represent JavaScript values, and the state machine  *)
(* is the caller who holds a schema document and a data value and applies  *)
(* the two validators to them.                                             *)
(***************************************************************************)
EXTENDS Integers, Sequences, FiniteSets, TLC

VARIABLES
    schemaDoc,     \* the schema document the caller holds
    data,          \* the data value the caller holds
    schemaResult,  \* outcome of json_schema.validate(schemaDoc), or NotRun
    dataResult,    \* outcome of json_object.validate(data, schemaDoc), or NotRun
    heap,          \* the object and array nodes of a schema that its nodes refer to
    stack,         \* the calls of json_schema.validate in progress, innermost last
    returned       \* what the call that just ended returned to its caller, or NotRun

vars == <<schemaDoc, data, schemaResult, dataResult, heap, stack, returned>>

\* the part of the state that only a call followed step by step uses
machine == <<heap, stack, returned>>

(***************************************************************************)
(* JavaScript values.  Every value is a record with a tag; the payload     *)
(* field is named differently for every tag.  An object is the sequence of *)
(* its own enumerable entries in insertion order, keys unique.             *)
(***************************************************************************)
Undefined == [tag |-> "undefined"]
Null      == [tag |-> "null"]
Function  == [tag |-> "function"]
Bool(b)   == [tag |-> "boolean", b |-> b]
Num(n)    == [tag |-> "number", n |-> n]
Str(s)    == [tag |-> "string", s |-> s]
Arr(a)    == [tag |-> "array", a |-> a]
Obj(e)    == [tag |-> "object", e |-> e]
Entry(k, v) == [k |-> k, v |-> v]

\* typeof v
TypeOf(v) ==
    CASE v.tag = "undefined" -> "undefined"
      [] v.tag = "null"      -> "object"
      [] v.tag = "array"     -> "object"
      [] v.tag = "object"    -> "object"
      [] OTHER               -> v.tag

\* Array.isArray(v)
IsArray(v) == v.tag = "array"

\* ToBoolean(v): what `!v` and `v && ...` test
Truthy(v) ==
    CASE v.tag = "undefined" -> FALSE
      [] v.tag = "null"      -> FALSE
      [] v.tag = "boolean"   -> v.b
      [] v.tag = "number"    -> v.n # 0
      [] v.tag = "string"    -> v.s # ""
      [] OTHER               -> TRUE

\* The members every object inherits from Object.prototype.
ObjectPrototypeKeys ==
    {"constructor", "toString", "toLocaleString", "valueOf", "hasOwnProperty",
     "isPrototypeOf", "propertyIsEnumerable", "__proto__"}

\* The index keys "0" .. "n-1" of an array or a string of length n.
IndexKeys(n) == [i \in 1..n |-> ToString(i - 1)]

\* Object.keys(v), for v neither null nor undefined
OwnKeys(v) ==
    CASE v.tag = "object" -> [i \in 1..Len(v.e) |-> v.e[i].k]
      [] v.tag = "array"  -> IndexKeys(Len(v.a))
      [] v.tag = "string" -> IndexKeys(Len(v.s))
      [] OTHER            -> <<>>

\* Object.keys(null) and null.x raise a TypeError
IsNullish(v) == v.tag \in {"undefined", "null"}

Range(seq) == {seq[i] : i \in 1..Len(seq)}

\* v[k], for v neither null nor undefined
Get(v, k) ==
    LET inherited == IF k \in ObjectPrototypeKeys THEN Function ELSE Undefined
    IN CASE v.tag = "object" ->
              IF \E i \in 1..Len(v.e) : v.e[i].k = k
              THEN v.e[CHOOSE i \in 1..Len(v.e) : v.e[i].k = k].v
              ELSE inherited
         [] v.tag = "array" ->
              IF \E i \in 1..Len(v.a) : ToString(i - 1) = k
              THEN v.a[CHOOSE i \in 1..Len(v.a) : ToString(i - 1) = k]
              ELSE IF k = "length" THEN Num(Len(v.a)) ELSE inherited
         [] v.tag = "string" ->
              IF \E i \in 1..Len(v.s) : ToString(i - 1) = k
              THEN Str(LET i == CHOOSE j \in 1..Len(v.s) : ToString(j - 1) = k
                       IN SubSeq(v.s, i, i))
              ELSE IF k = "length" THEN Num(Len(v.s)) ELSE inherited
         [] OTHER -> inherited

\* `k in v`, for an object or an array v: own or inherited
HasProperty(k, v) ==
    \/ k \in Range(OwnKeys(v))
    \/ k \in ObjectPrototypeKeys
    \/ v.tag = "array" /\ k = "length"

\* `k in v` raises a TypeError unless v is an object
InThrows(v) == v.tag \notin {"object", "array", "function"}

RECURSIVE JoinArray(_, _)
RECURSIVE ToStr(_)
\* String(v), as a template literal `${v}` converts
ToStr(v) ==
    CASE v.tag = "undefined" -> "undefined"
      [] v.tag = "null"      -> "null"
      [] v.tag = "boolean"   -> IF v.b THEN "true" ELSE "false"
      [] v.tag = "number"    -> ToString(v.n)
      [] v.tag = "string"    -> v.s
      [] v.tag = "array"     -> JoinArray(v.a, 1)
      [] v.tag = "function"  -> "function () { [native code] }"
      [] OTHER               -> "[object Object]"
\* Array.prototype.join(","), from the i-th element on
JoinArray(a, i) ==
    IF i > Len(a) THEN ""
    ELSE (IF IsNullish(a[i]) THEN "" ELSE ToStr(a[i]))
         \o (IF i < Len(a) THEN "," \o JoinArray(a, i + 1) ELSE "")

\* ToPropertyKey(v): the key that `v in o` and `o[v]` look up
PropertyKey(v) == ToStr(v)

(***************************************************************************)
(* Validation results: {valid, reason}, or an exception raised.            *)
(***************************************************************************)
NotRun       == [thrown |-> FALSE, valid |-> FALSE, reason |-> "not run", ran |-> FALSE]
Valid        == [thrown |-> FALSE, valid |-> TRUE, reason |-> "", ran |-> TRUE]
Invalid(why) == [thrown |-> FALSE, valid |-> FALSE, reason |-> why, ran |-> TRUE]
Throw(what)  == [thrown |-> TRUE, valid |-> FALSE, reason |-> what, ran |-> TRUE]


\* new Set(v): the elements of an iterable, nothing for a missing argument
NewSet(v) ==
    CASE v.tag = "array"  -> Range(v.a)
      [] v.tag = "string" -> {Str(SubSeq(v.s, i, i)) : i \in 1..Len(v.s)}
      [] OTHER            -> {}

\* new Set(v) raises a TypeError when v is present and not iterable
NewSetThrows(v) == v.tag \in {"number", "boolean", "object", "function"}

(***************************************************************************)
(* src/schema.js: the schema validator.                                    *)
(***************************************************************************)
MaxSchemaDepth == 20

\* a table that lets a boolean node carry the string keys
ALLOWED_TYPES_BooleanAsString ==
    [string  |-> {"type", "default", "minLength", "maxLength"},
     boolean |-> {"type", "default", "minLength", "maxLength"},
     number  |-> {"type", "default"}]

ALLOWED_TYPES ==
    [string  |-> {"type", "default", "minLength", "maxLength"},
     boolean |-> {"type", "default"},
     number  |-> {"type", "default"}]

\* an off-by-one depth test: `depth >= 20`
SchemaDepthExceeded_OffByOne(depth) == depth >= MaxSchemaDepth

\* `depth > 20` of the schema validator
SchemaDepthExceeded(depth) == depth > MaxSchemaDepth

\* `schema.minItems && typeof schema.minItems !== 'number'`
BadItemsBound(bound) == Truthy(bound) /\ TypeOf(bound) # "number"

schema_validateArray(schema) ==
    IF ~Truthy(Get(schema, "type"))
    THEN Invalid("The 'type' field is missing")
    ELSE IF ~Truthy(Get(schema, "items"))
    THEN Invalid("Expected 'items' field in array object schema")
    ELSE IF BadItemsBound(Get(schema, "minItems"))
    THEN Invalid("Invalid type for minItems: Expected a number")
    ELSE IF BadItemsBound(Get(schema, "maxItems"))
    THEN Invalid("Invalid type for maxItems: Expected a number")
    ELSE Valid

\* `!allowed_for_type.has(value_key)`
KeyNotAllowed(allowed_for_type, value_key) == value_key \notin allowed_for_type

RECURSIVE schema_validate(_, _)
RECURSIVE schema_validateObject_loop(_, _, _, _, _)
RECURSIVE schema_validate_keys(_, _, _)

\* In the validators below a CASE models a run of early returns: its arms are
\* in the order of the code's `if (...) return`s, and an arm is reached only
\* when the guards of the arms before it are false (TLC takes the first arm
\* whose guard holds).

\* the `for (const key of Object.keys(schema.properties))` loop of validateObject
\* from the i-th key on, and the check of the unmatched required names after it
schema_validateObject_loop(properties, depth, keys, i, required) ==
    LET key   == keys[i]
        child == Get(properties, key)
        r     == schema_validate(child, depth + 1)
    IN CASE i > Len(keys) /\ Cardinality(required) # 0 ->
              Invalid("Some required fields were not provided: [object Set Iterator]")
         [] i > Len(keys) -> Valid
         [] IsNullish(child) ->
              Throw("TypeError: Cannot read properties of " \o ToStr(child))
         [] ~Truthy(Get(child, "type")) ->
              Invalid("The 'type' field is missing in key " \o key)
         [] r.thrown -> r
         [] ~r.valid ->
              Invalid("Ill-formatted type at key '" \o key \o "': " \o r.reason)
         [] OTHER ->
              schema_validateObject_loop(properties, depth, keys, i + 1,
                                         required \ {Str(key)})

schema_validateObject(schema, depth) ==
    LET properties == Get(schema, "properties")
        required   == NewSet(Get(schema, "required"))
        keys       == OwnKeys(properties)
    IN CASE ~Truthy(properties) ->
              Invalid("At least one property must be set")
         [] NewSetThrows(Get(schema, "required")) ->
              Throw("TypeError: " \o ToStr(Get(schema, "required")) \o " is not iterable")
         [] Cardinality(required) > Len(keys) ->
              Invalid("Insatisfiable requirement: more required fields than properties ("
                      \o ToString(Cardinality(required)) \o " > "
                      \o ToString(Len(keys)) \o ")")
         [] OTHER ->
              schema_validateObject_loop(properties, depth, keys, 1, required)

\* the `for (const value_key of Object.keys(schema))` loop of validate, from the
\* i-th key on; schema.type is such that `schema.type in ALLOWED_TYPES` holds
schema_validate_keys(schema, keys, i) ==
    LET type      == Get(schema, "type")
        value_key == keys[i]
    IN CASE i > Len(keys) -> Valid
         [] PropertyKey(type) \notin DOMAIN ALLOWED_TYPES ->
              Throw("TypeError: allowed_for_type.has is not a function")
         [] KeyNotAllowed(ALLOWED_TYPES[PropertyKey(type)], value_key) ->
              Invalid("Unexpected schema key '" \o value_key \o "' for " \o ToStr(type)
                      \o " instance, expected one of [object Set Iterator]")
         [] /\ type = Str("string")
            /\ value_key \in {"minLength", "maxLength"}
            /\ TypeOf(Get(schema, value_key)) # "number" ->
              Invalid("Invalid string: " \o value_key \o " must be a number (got "
                      \o ToStr(Get(schema, value_key)) \o ")")
         [] OTHER -> schema_validate_keys(schema, keys, i + 1)

\* json_schema.validate(schema, depth)
schema_validate(schema, depth) ==
    LET type  == Get(schema, "type")
        o     == schema_validateObject(schema, depth)
        a     == schema_validateArray(schema)
        r     == schema_validate(Get(schema, "items"), depth + 1)
    IN CASE SchemaDepthExceeded(depth) ->
              Invalid("Maximum schema depth (20) exceeded")
         [] IsNullish(schema) ->
              Throw("TypeError: Cannot read properties of " \o ToStr(schema))
         [] ~Truthy(type) ->
              Invalid("The 'type' field is missing in object")
         [] type = Str("object") /\ o.thrown -> o
         [] type = Str("object") /\ ~o.valid -> Invalid("Invalid object: " \o o.reason)
         [] type = Str("object") -> Valid
         [] type = Str("array") /\ ~a.valid -> Invalid("Invalid array: " \o a.reason)
         [] type = Str("array") /\ r.thrown -> r
         [] type = Str("array") /\ ~r.valid -> Invalid("Invalid array: " \o r.reason)
         [] type = Str("array") -> Valid
         [] PropertyKey(type) \in (DOMAIN ALLOWED_TYPES \cup ObjectPrototypeKeys) ->
              schema_validate_keys(schema, OwnKeys(schema), 1)
         [] OTHER ->
              Invalid("Ill-formatted type: " \o ToStr(type)
                      \o " is not a valid JSON schema instance")

(***************************************************************************)
(* src/object.js: the data validator.                                      *)
(***************************************************************************)
MaxObjectDepth == 20

\* `depth > 20` of the data validator
ObjectDepthExceeded(depth) == depth > MaxObjectDepth

\* ToNumber(v) is a number (not NaN).  The strings of the model are never
\* numerals and its arrays never hold a single numeral, so only the empty ones
\* convert.
HasNumber(v) ==
    \/ v.tag \in {"number", "boolean", "null"}
    \/ v.tag = "string" /\ v.s = ""
    \/ v.tag = "array" /\ Len(v.a) = 0

\* ToNumber(v), where HasNumber(v)
ToNumber(v) ==
    CASE v.tag = "number"  -> v.n
      [] v.tag = "boolean" -> IF v.b THEN 1 ELSE 0
      [] OTHER             -> 0

\* `length < bound` and `length > bound`, length a number: false when the bound
\* converts to NaN
LessThan(length, bound)    == HasNumber(bound) /\ length < ToNumber(bound)
GreaterThan(length, bound) == HasNumber(bound) /\ length > ToNumber(bound)

\* `schema.minItems && object.length < schema.minItems` (and minLength)
BelowMin(length, min) == Truthy(min) /\ LessThan(length, min)

\* `schema.maxItems && object.length > schema.maxItems` (and maxLength)
AboveMax(length, max) == Truthy(max) /\ GreaterThan(length, max)

\* `!schema.properties || !schema.required`
Unvalidated(schema) ==
    ~Truthy(Get(schema, "properties")) \/ ~Truthy(Get(schema, "required"))

\* `!(key in schema.properties)`, for properties an object
KeyNotDeclared(key, properties) == ~HasProperty(key, properties)

\* `Array.isArray(object[key]) ? 'array' : typeof object[key]`
ValueType(v) == IF IsArray(v) THEN "array" ELSE TypeOf(v)

RECURSIVE object_validate(_, _, _)
RECURSIVE object_validateArray_loop(_, _, _)
RECURSIVE object_validateObject_loop(_, _, _, _, _, _)

\* the `for (let i = 0; i < object.length; i++)` loop of validateArray, from the
\* element at index i on (i counts from 0, as in the source)
object_validateArray_loop(object, schema, i) ==
    LET item   == object.a[i + 1]
        result == object_validate(item, Get(schema, "items"), 0)
    IN CASE ~(i < Len(object.a)) -> Valid
         [] result.thrown -> result
         [] ~result.valid ->
              Invalid("Invalid item at index " \o ToString(i) \o ": " \o result.reason)
         [] OTHER -> object_validateArray_loop(object, schema, i + 1)

object_validateArray(object, schema) ==
    CASE ~Truthy(Get(schema, "items")) ->
           Throw("Error: 'validateObject' called with unvalidated schema: This should never happen, go fix your code!")
      [] ~IsArray(object) -> Invalid("Not an array")
      [] BelowMin(Len(object.a), Get(schema, "minItems")) ->
           Invalid("Object length is smaller than 'minItems' (" \o ToString(Len(object.a))
                   \o " < " \o ToStr(Get(schema, "minItems")) \o ")")
      [] AboveMax(Len(object.a), Get(schema, "maxItems")) ->
           Invalid("Object length is smaller than 'minItems' (" \o ToString(Len(object.a))
                   \o " > " \o ToStr(Get(schema, "maxItems")) \o ")")
      [] OTHER -> object_validateArray_loop(object, schema, 0)

\* the `for (const key of Object.keys(object))` loop of validateObject from the
\* i-th key on, and the check of the unobserved required names after it
object_validateObject_loop(object, schema, depth, keys, i, required) ==
    LET key        == keys[i]
        properties == Get(schema, "properties")
        result     == object_validate(Get(object, key), Get(properties, key), depth + 1)
        value_type == ValueType(Get(object, key))
    IN CASE i > Len(keys) /\ Cardinality(required) # 0 ->
              Invalid("Some required fields were not provided: [object Set Iterator]")
         [] i > Len(keys) -> Valid
         [] InThrows(properties) ->
              Throw("TypeError: Cannot use 'in' operator to search for '" \o key
                    \o "' in " \o ToStr(properties))
         [] KeyNotDeclared(key, properties) -> Invalid("Unexpected key " \o key)
         [] result.thrown -> result
         [] ~result.valid ->
              Invalid("Ill-formatted type at key '" \o key \o "': " \o result.reason)
         [] Str(value_type) # Get(Get(properties, key), "type") ->
              Invalid("Invalid type '" \o value_type \o "' for key " \o key
                      \o " (expected " \o ToStr(Get(Get(properties, key), "type")) \o ")")
         [] OTHER ->
              object_validateObject_loop(object, schema, depth, keys, i + 1,
                                         required \ {Str(key)})

object_validateObject(object, schema, depth) ==
    CASE Unvalidated(schema) ->
           Throw("Error: 'validateObject' called with an unvalidated schema: This should never happen, go fix your code!")
      [] NewSetThrows(Get(schema, "required")) ->
           Throw("TypeError: " \o ToStr(Get(schema, "required")) \o " is not iterable")
      [] IsNullish(object) ->
           Throw("TypeError: Cannot convert undefined or null to object")
      [] OTHER ->
           object_validateObject_loop(object, schema, depth, OwnKeys(object), 1,
                                      NewSet(Get(schema, "required")))

\* json_object.validate(object, schema, depth)
object_validate(object, schema, depth) ==
    LET type == Get(schema, "type")
        o    == object_validateObject(object, schema, depth + 1)
        a    == object_validateArray(object, schema)
    IN CASE ObjectDepthExceeded(depth) ->
              Invalid("Maximum object depth (20) exceeded")
         [] IsNullish(schema) ->
              Throw("TypeError: Cannot read properties of " \o ToStr(schema))
         [] type = Str("object") /\ o.thrown -> o
         [] type = Str("object") /\ ~o.valid -> Invalid("Invalid object: " \o o.reason)
         [] type = Str("object") -> Valid
         [] type = Str("array") /\ a.thrown -> a
         [] type = Str("array") /\ ~a.valid -> Invalid("Invalid array: " \o a.reason)
         [] type = Str("array") -> Valid
         [] type = Str("string") /\ TypeOf(object) # "string" ->
              Invalid("Invalid type: expected string, got " \o TypeOf(object))
         [] type = Str("string") /\ BelowMin(Len(object.s), Get(schema, "minLength")) ->
              Invalid("Got string shorter than minLength (" \o ToString(Len(object.s))
                      \o " < " \o ToStr(Get(schema, "minLength")) \o ")")
         [] type = Str("string") /\ AboveMax(Len(object.s), Get(schema, "maxLength")) ->
              Invalid("Got string longer than maxLength (" \o ToString(Len(object.s))
                      \o " > " \o ToStr(Get(schema, "maxLength")) \o ")")
         [] type = Str("string") -> Valid
         [] type = Str("number") /\ TypeOf(object) # "number" ->
              Invalid("Invalid type: Expected number, got " \o TypeOf(object))
         [] type = Str("boolean") /\ TypeOf(object) # "boolean" ->
              Invalid("Invalid type: Expected boolean, got " \o TypeOf(object))
         [] OTHER -> Valid

(***************************************************************************)
(* The caller.  A schema is validated once; a schema found valid is then   *)
(* used to validate data (README.md, tests/schema-validator.test.js).      *)
(***************************************************************************)
\* json_schema.validate(schema)
ValidateSchema ==
    /\ ~schemaResult.ran
    /\ schemaResult' = schema_validate(schemaDoc, 0)
    /\ UNCHANGED <<schemaDoc, data, dataResult, machine>>

\* json_object.validate(data, schema), on a schema that passed validation
ValidateData ==
    /\ schemaResult.ran /\ schemaResult.valid
    /\ ~dataResult.ran
    /\ dataResult' = object_validate(data, schemaDoc, 0)
    /\ UNCHANGED <<schemaDoc, data, schemaResult, machine>>

(***************************************************************************)
(* The documents the caller may hold: schema documents as a JSON parser or *)
(* a literal produces them (well-formed and malformed), and JSON data.     *)
(***************************************************************************)
\* Largest minLength/maxLength/minItems/maxItems of the schemas explored.
MaxBound == 2
\* Longest data string explored.
MaxLen == 2
\* Longest data array explored.
MaxItems == 2

TypeEntry(t) == Entry("type", Str(t))

\* values written for a length bound: numbers from 0, and non-numbers
BoundValues ==
    {Num(n) : n \in 0..MaxBound} \cup {Str(""), Str("x"), Bool(FALSE), Null}

StringSchema  == Obj(<<TypeEntry("string")>>)
NumberSchema  == Obj(<<TypeEntry("number")>>)
BooleanSchema == Obj(<<TypeEntry("boolean")>>)

\* what follows `type` in a string, number or boolean node
LeafExtras ==
    {<<>>, <<Entry("default", Str("d"))>>, <<Entry("minItems", Num(1))>>}
    \cup {<<Entry(k, b)>> : k \in {"minLength", "maxLength"}, b \in BoundValues}
    \cup {<<Entry("minLength", Num(m)), Entry("maxLength", Num(n))>> :
            m \in 0..MaxBound, n \in 0..MaxBound}

LeafSchemas ==
    {Obj(<<TypeEntry(t)>> \o x) : t \in {"string", "number", "boolean"}, x \in LeafExtras}

\* nodes that are no schema of the dialect
OddSchemas ==
    {Obj(<<>>), Obj(<<TypeEntry("bar")>>), Obj(<<TypeEntry("null")>>),
     Obj(<<TypeEntry("")>>), Obj(<<TypeEntry("toString")>>),
     Obj(<<Entry("type", Arr(<<Str("string")>>))>>),
     Obj(<<Entry("type", Arr(<<Str("string"), Str("null")>>))>>),
     Obj(<<Entry("minLength", Num(1)), TypeEntry("boolean")>>),
     Str("string")}

ObjectSchema(required, properties) ==
    Obj(<<TypeEntry("object")>> \o required \o properties)

\* object nodes with one string property and the `required` forms; with no
\* entries in `properties`; and without `properties`
SmallObjectSchemas ==
    {ObjectSchema(<<Entry("required", Arr(<<>>))>>,
                  <<Entry("properties", Obj(<<Entry("a", StringSchema)>>))>>),
     ObjectSchema(<<Entry("required", Arr(<<Str("a")>>))>>,
                  <<Entry("properties", Obj(<<Entry("a", StringSchema)>>))>>),
     ObjectSchema(<<>>, <<Entry("properties", Obj(<<Entry("a", StringSchema)>>))>>),
     ObjectSchema(<<>>, <<Entry("properties", Obj(<<>>))>>),
     ObjectSchema(<<Entry("required", Arr(<<>>))>>, <<Entry("properties", Obj(<<>>))>>),
     ObjectSchema(<<Entry("required", Arr(<<>>))>>, <<>>)}

ArrayExtras ==
    {<<>>} \cup {<<Entry(k, b)>> : k \in {"minItems", "maxItems"}, b \in BoundValues}

ArraySchema(items, extras) == Obj(<<TypeEntry("array")>> \o items \o extras)

ArraySchemas ==
    {ArraySchema(<<Entry("items", i)>>, x) :
        i \in {StringSchema,
               ObjectSchema(<<Entry("required", Arr(<<>>))>>,
                            <<Entry("properties", Obj(<<Entry("a", StringSchema)>>))>>)},
        x \in ArrayExtras}
    \cup {ArraySchema(<<Entry("items", i)>>, <<>>) :
            i \in SmallObjectSchemas \cup OddSchemas
                  \cup {NumberSchema, Obj(<<TypeEntry("string"), Entry("maxLength", Num(1))>>)}}
    \cup {ArraySchema(<<>>, <<>>), ArraySchema(<<>>, <<Entry("minItems", Num(1))>>)}

\* the schema of a property
PropertySchemas ==
    {StringSchema, NumberSchema,
     Obj(<<TypeEntry("string"), Entry("maxLength", Num(0))>>),
     Obj(<<TypeEntry("string"), Entry("minLength", Num(MaxBound))>>),
     ArraySchema(<<Entry("items", StringSchema)>>, <<>>),
     ArraySchema(<<Entry("items", StringSchema)>>, <<Entry("maxItems", Num(0))>>),
     ArraySchema(<<Entry("items", StringSchema)>>, <<Entry("maxItems", Num(1))>>),
     ArraySchema(<<Entry("items", StringSchema)>>, <<Entry("minItems", Str(""))>>),
     ArraySchema(<<>>, <<>>)}
    \cup SmallObjectSchemas \cup OddSchemas

PropertyMaps ==
    {<<>>, <<Entry("properties", Obj(<<>>))>>}
    \cup {<<Entry("properties", Obj(<<Entry("a", n)>>))>> : n \in PropertySchemas}
    \cup {<<Entry("properties", Obj(<<Entry("a", n), Entry("b", m)>>))>> :
            n \in PropertySchemas, m \in {StringSchema, NumberSchema}}

RequiredLists ==
    {<<>>}
    \cup {<<Entry("required", Arr(r))>> :
            r \in {<<>>, <<Str("a")>>, <<Str("b")>>, <<Str("a"), Str("b")>>,
                   <<Str("a"), Str("a")>>, <<Str("c")>>}}

ObjectSchemas == {ObjectSchema(r, p) : r \in RequiredLists, p \in PropertyMaps}

Schemas == LeafSchemas \cup OddSchemas \cup ArraySchemas \cup ObjectSchemas

\* data strings "", "a", "aa", ...
RECURSIVE Text(_)
Text(n) == IF n = 0 THEN "" ELSE "a" \o Text(n - 1)

Primitives == {Null, Num(1), Bool(TRUE)} \cup {Str(Text(n)) : n \in 0..MaxLen}

Elements == {Str("a"), Num(1), Null, Obj(<<>>), Obj(<<Entry("a", Str("a"))>>)}

RECURSIVE Tuples(_, _)
\* the sequences of length n over S
Tuples(S, n) ==
    IF n = 0 THEN {<<>>} ELSE {<<x>> \o t : x \in S, t \in Tuples(S, n - 1)}

Arrays == UNION {{Arr(t) : t \in Tuples(Elements, n)} : n \in 0..MaxItems}

StringArrays == UNION {{Arr(t) : t \in Tuples({Str("a")}, n)} : n \in 0..MaxItems}

PropertyValues ==
    {Str(Text(n)) : n \in 0..MaxLen} \cup {Num(1), Null, Obj(<<>>), Obj(<<Entry("a", Str("a"))>>)}
    \cup StringArrays

Objects ==
    {Obj(a \o b \o c) :
        a \in {<<>>} \cup {<<Entry("a", v)>> : v \in PropertyValues},
        b \in {<<>>, <<Entry("b", Str("a"))>>, <<Entry("b", Num(1))>>},
        c \in {<<>>, <<Entry("c", Num(1))>>, <<Entry("toString", Num(1))>>}}

Values == Primitives \cup Arrays \cup Objects

Init ==
    /\ schemaDoc \in Schemas
    /\ data \in Values
    /\ schemaResult = NotRun
    /\ dataResult = NotRun
    /\ heap = <<>> /\ stack = <<>> /\ returned = NotRun

Next == ValidateSchema \/ ValidateData

Spec == Init /\ [][Next]_vars

(***************************************************************************)
(* Deeply nested documents: the caller nests the schema and, alongside,    *)
(* the data one level at a time before validating.                         *)
(***************************************************************************)
MaxNest == 22
MaxArrayNest == 1

RECURSIVE Nesting(_)
\* the number of object->property and array->items steps down the (single)
\* chain of a nested schema
Nesting(s) ==
    CASE Get(s, "type") = Str("object") /\ Len(OwnKeys(Get(s, "properties"))) > 0 ->
           1 + Nesting(Get(Get(s, "properties"), OwnKeys(Get(s, "properties"))[1]))
      [] Get(s, "type") = Str("array") -> 1 + Nesting(Get(s, "items"))
      [] OTHER -> 0

RECURSIVE ArrayNesting(_)
ArrayNesting(s) ==
    CASE Get(s, "type") = Str("object") /\ Len(OwnKeys(Get(s, "properties"))) > 0 ->
           ArrayNesting(Get(Get(s, "properties"), OwnKeys(Get(s, "properties"))[1]))
      [] Get(s, "type") = Str("array") -> 1 + ArrayNesting(Get(s, "items"))
      [] OTHER -> 0

NestInObject ==
    /\ ~schemaResult.ran
    /\ Nesting(schemaDoc) < MaxNest
    /\ schemaDoc' = Obj(<<Entry("type", Str("object")),
                          Entry("required", Arr(<<Str("a")>>)),
                          Entry("properties", Obj(<<Entry("a", schemaDoc)>>))>>)
    /\ data' = Obj(<<Entry("a", data)>>)
    /\ UNCHANGED <<schemaResult, dataResult, machine>>

NestInArray ==
    /\ ~schemaResult.ran
    /\ Nesting(schemaDoc) < MaxNest
    /\ ArrayNesting(schemaDoc) < MaxArrayNest
    /\ schemaDoc' = Obj(<<Entry("type", Str("array")), Entry("items", schemaDoc)>>)
    /\ data' = Arr(<<data>>)
    /\ UNCHANGED <<schemaResult, dataResult, machine>>

\* the innermost schema and value of a nested pair: conforming leaves, a
\* value of the wrong type, and a node that is no schema
DeepSeeds ==
    {<<StringSchema, Str("a")>>, <<NumberSchema, Num(1)>>, <<BooleanSchema, Bool(TRUE)>>,
     <<StringSchema, Num(1)>>, <<Obj(<<TypeEntry("bar")>>), Str("a")>>}

DeepInit ==
    /\ \E seed \in DeepSeeds : schemaDoc = seed[1] /\ data = seed[2]
    /\ schemaResult = NotRun
    /\ dataResult = NotRun
    /\ heap = <<>> /\ stack = <<>> /\ returned = NotRun

DeepNext == NestInObject \/ NestInArray \/ ValidateSchema \/ ValidateData

DeepSpec == DeepInit /\ [][DeepNext]_vars

(***************************************************************************)
(* A call of json_schema.validate followed one call and one return at a    *)
(* time, on a schema whose object and array nodes are held in `heap` and   *)
(* refer to one another, and possibly to themselves, as JavaScript objects *)
(* do.  `stack` is the JavaScript call stack: validate and validateObject  *)
(* frames, each with the position it has reached.  No frame catches an     *)
(* exception, so a TypeError ends the outermost call.                      *)
(***************************************************************************)
MaxNodes == 2

\* a property value or `items` that is the object held at heap[r]
Ref(r) == [tag |-> "ref", r |-> r]

\* the object a value stands for
Deref(v) == IF v.tag = "ref" THEN heap[v.r] ELSE v

\* a call of fn(schema, depth) that has not yet run its first statement
Frame(fn, schema, depth) ==
    [fn |-> fn, schema |-> schema, depth |-> depth, pc |-> "enter", i |-> 1,
     required |-> {}]

\* the running call, and the calls waiting for it
Top     == stack[Len(stack)]
Callers == SubSeq(stack, 1, Len(stack) - 1)

\* `return r` of the running call, or `throw` when r is an exception
Return(r) ==
    IF r.thrown \/ Len(stack) = 1
    THEN stack' = <<>> /\ schemaResult' = r /\ returned' = NotRun
    ELSE stack' = Callers /\ returned' = r /\ UNCHANGED schemaResult

\* the running call moves to position pc and calls callee
CallFrom(pc, callee) ==
    /\ stack' = Callers \o <<[Top EXCEPT !.pc = pc], callee>>
    /\ UNCHANGED <<schemaResult, returned>>

\* the caller's json_schema.validate(schema): depth defaults to 0
CallValidate ==
    /\ ~schemaResult.ran /\ stack = <<>>
    /\ stack' = <<Frame("validate", schemaDoc, 0)>>
    /\ UNCHANGED <<schemaDoc, data, schemaResult, dataResult, heap, returned>>

\* validate, from its first statement to its first call or return
validate_enter ==
    /\ stack # <<>> /\ Top.fn = "validate" /\ Top.pc = "enter"
    /\ LET schema == Deref(Top.schema)
           depth  == Top.depth
           type   == Get(schema, "type")
           a      == schema_validateArray(schema)
       IN CASE SchemaDepthExceeded(depth) ->
                 Return(Invalid("Maximum schema depth (20) exceeded"))
            [] IsNullish(schema) ->
                 Return(Throw("TypeError: Cannot read properties of " \o ToStr(schema)))
            [] ~Truthy(type) ->
                 Return(Invalid("The 'type' field is missing in object"))
            [] type = Str("object") ->
                 CallFrom("object", Frame("validateObject", Top.schema, depth))
            [] type = Str("array") /\ ~a.valid ->
                 Return(Invalid("Invalid array: " \o a.reason))
            [] type = Str("array") ->
                 CallFrom("items", Frame("validate", Get(schema, "items"), depth + 1))
            [] PropertyKey(type) \in (DOMAIN ALLOWED_TYPES \cup ObjectPrototypeKeys) ->
                 Return(schema_validate_keys(schema, OwnKeys(schema), 1))
            [] OTHER ->
                 Return(Invalid("Ill-formatted type: " \o ToStr(type)
                                \o " is not a valid JSON schema instance"))
    /\ UNCHANGED <<schemaDoc, data, dataResult, heap>>

\* validate, after validateObject(schema, depth) or validate(schema.items,
\* depth + 1) has returned
validate_resume ==
    /\ stack # <<>> /\ Top.fn = "validate" /\ Top.pc \in {"object", "items"}
    /\ returned.ran
    /\ LET prefix == IF Top.pc = "object" THEN "Invalid object: " ELSE "Invalid array: "
       IN IF ~returned.valid
          THEN Return(Invalid(prefix \o returned.reason))
          ELSE Return(Valid)
    /\ UNCHANGED <<schemaDoc, data, dataResult, heap>>

\* validateObject, from its first statement to the start of its loop
validateObject_enter ==
    /\ stack # <<>> /\ Top.fn = "validateObject" /\ Top.pc = "enter"
    /\ LET schema     == Deref(Top.schema)
           properties == Get(schema, "properties")
           required   == Get(schema, "required")
       IN CASE ~Truthy(properties) ->
                 Return(Invalid("At least one property must be set"))
            [] NewSetThrows(required) ->
                 Return(Throw("TypeError: " \o ToStr(required) \o " is not iterable"))
            [] Cardinality(NewSet(required)) > Len(OwnKeys(properties)) ->
                 Return(Invalid("Insatisfiable requirement: more required fields than properties ("
                                \o ToString(Cardinality(NewSet(required))) \o " > "
                                \o ToString(Len(OwnKeys(properties))) \o ")"))
            [] OTHER ->
                 /\ stack' = Callers \o <<[Top EXCEPT !.pc = "loop", !.i = 1,
                                                     !.required = NewSet(required)]>>
                 /\ UNCHANGED <<schemaResult, returned>>
    /\ UNCHANGED <<schemaDoc, data, dataResult, heap>>

\* validateObject at the head of its loop over Object.keys(schema.properties):
\* the next key up to the call validate(schema.properties[key], depth + 1), or
\* the statements after the loop
validateObject_loop ==
    /\ stack # <<>> /\ Top.fn = "validateObject" /\ Top.pc = "loop"
    /\ LET properties == Get(Deref(Top.schema), "properties")
           keys       == OwnKeys(properties)
           key        == keys[Top.i]
           child      == Get(properties, key)
       IN CASE Top.i > Len(keys) /\ Cardinality(Top.required) # 0 ->
                 Return(Invalid("Some required fields were not provided: [object Set Iterator]"))
            [] Top.i > Len(keys) -> Return(Valid)
            [] IsNullish(Deref(child)) ->
                 Return(Throw("TypeError: Cannot read properties of " \o ToStr(child)))
            [] ~Truthy(Get(Deref(child), "type")) ->
                 Return(Invalid("The 'type' field is missing in key " \o key))
            [] OTHER ->
                 /\ stack' = Callers \o
                       <<[Top EXCEPT !.pc = "key", !.required = @ \ {Str(key)}],
                         Frame("validate", child, Top.depth + 1)>>
                 /\ UNCHANGED <<schemaResult, returned>>
    /\ UNCHANGED <<schemaDoc, data, dataResult, heap>>

\* validateObject, after validate(schema.properties[key], depth + 1) has returned
validateObject_resume ==
    /\ stack # <<>> /\ Top.fn = "validateObject" /\ Top.pc = "key"
    /\ returned.ran
    /\ LET key == OwnKeys(Get(Deref(Top.schema), "properties"))[Top.i]
       IN IF ~returned.valid
          THEN Return(Invalid("Ill-formatted type at key '" \o key \o "': "
                              \o returned.reason))
          ELSE /\ stack' = Callers \o <<[Top EXCEPT !.pc = "loop", !.i = @ + 1]>>
               /\ returned' = NotRun
               /\ UNCHANGED schemaResult
    /\ UNCHANGED <<schemaDoc, data, dataResult, heap>>

\* what a property or `items` of a node may be: another node of the schema, or
\* a leaf written in place (a string node, a node whose type names a member of
\* Object.prototype, a node without type)
ChildValues ==
    {Ref(r) : r \in 1..MaxNodes}
    \cup {StringSchema, Obj(<<TypeEntry("toString")>>), Obj(<<>>)}

\* the object and array nodes a heap may hold
HeapNodes ==
    {ObjectSchema(required, <<Entry("properties", Obj(<<Entry("a", c)>>))>>) :
        required \in {<<>>, <<Entry("required", Arr(<<Str("z")>>))>>},
        c \in ChildValues}
    \cup
    {ObjectSchema(required, <<Entry("properties", Obj(<<Entry("a", c), Entry("b", d)>>))>>) :
        required \in {<<>>, <<Entry("required", Arr(<<Str("z")>>))>>},
        c \in ChildValues, d \in ChildValues}
    \cup {ArraySchema(<<Entry("items", c)>>, <<>>) : c \in ChildValues}

\* the caller holds the schema whose root is heap[1]
CyclicInit ==
    /\ heap \in [1..MaxNodes -> HeapNodes]
    /\ schemaDoc = Ref(1)
    /\ data = Null
    /\ schemaResult = NotRun
    /\ dataResult = NotRun
    /\ stack = <<>> /\ returned = NotRun

CyclicNext ==
    \/ CallValidate
    \/ validate_enter
    \/ validate_resume
    \/ validateObject_enter
    \/ validateObject_loop
    \/ validateObject_resume

CyclicSpec == CyclicInit /\ [][CyclicNext]_vars

\* JavaScript runs a call to completion: a call in progress takes its next step
CyclicFairSpec == CyclicSpec /\ WF_vars(CyclicNext)

(***************************************************************************)
(* What the claims speak of, stated from the dialect (the typedefs of      *)
(* src/schema.js) and not from the validators.                             *)
(***************************************************************************)
SchemaAccepted  == schemaResult.ran /\ schemaResult.valid /\ ~schemaResult.thrown
ReturnsInvalid(result) == result.ran /\ ~result.valid /\ ~result.thrown
ReturnsValid(result)   == result.ran /\ result.valid /\ ~result.thrown

EndsWith(str, suffix) ==
    /\ Len(str) >= Len(suffix)
    /\ SubSeq(str, Len(str) - Len(suffix) + 1, Len(str)) = suffix

FiveKinds == {Str("string"), Str("number"), Str("boolean"), Str("object"), Str("array")}
LeafKinds == {Str("string"), Str("number"), Str("boolean")}

IsObjectNode(n) == n.tag = "object" /\ Get(n, "type") = Str("object")
IsArrayNode(n)  == n.tag = "object" /\ Get(n, "type") = Str("array")
IsLeafNode(n)   == n.tag = "object" /\ Get(n, "type") \in LeafKinds

Present(n, k) == k \in Range(OwnKeys(n))

\* the declared property names of an object node
PropertyNames(n) ==
    IF Present(n, "properties") /\ Get(n, "properties").tag = "object"
    THEN Range(OwnKeys(Get(n, "properties"))) ELSE {}

\* the names listed in `required`
RequiredNames(n) ==
    IF Present(n, "required") /\ Get(n, "required").tag = "array"
    THEN {r.s : r \in Range(Get(n, "required").a)} ELSE {}

RECURSIVE SchemaNodes(_)
\* the nodes of a schema: the node itself, the property schemas of an object
\* node and the items schema of an array node, and theirs
SchemaNodes(n) ==
    {n} \cup
    (CASE IsObjectNode(n) ->
            UNION {SchemaNodes(Get(Get(n, "properties"), k)) : k \in PropertyNames(n)}
       [] IsArrayNode(n) /\ Present(n, "items") -> SchemaNodes(Get(n, "items"))
       [] OTHER -> {})

IsNumber(v) == v.tag = "number"

\* a leaf node all of whose keys are allowed for its type, with numeric
\* minLength and maxLength
LeafWellFormed(n) ==
    /\ IsLeafNode(n)
    /\ Range(OwnKeys(n)) \subseteq
         (IF Get(n, "type") = Str("string")
          THEN {"type", "default", "minLength", "maxLength"}
          ELSE {"type", "default"})
    /\ \A k \in {"minLength", "maxLength"} : Present(n, k) => IsNumber(Get(n, k))

RECURSIVE WellFormed(_)
\* a schema of the dialect, whatever its nesting depth
WellFormed(n) ==
    CASE IsLeafNode(n) -> LeafWellFormed(n)
      [] IsArrayNode(n) ->
           /\ Present(n, "items")
           /\ \A k \in {"minItems", "maxItems"} : Present(n, k) => IsNumber(Get(n, k))
           /\ WellFormed(Get(n, "items"))
      [] IsObjectNode(n) ->
           /\ PropertyNames(n) # {}
           /\ RequiredNames(n) \subseteq PropertyNames(n)
           /\ \A k \in PropertyNames(n) : WellFormed(Get(Get(n, "properties"), k))
      [] OTHER -> FALSE

RECURSIVE Conforms(_, _)
\* the value v conforms to the well-formed schema node n at every level
Conforms(v, n) ==
    CASE Get(n, "type") = Str("string") ->
           /\ v.tag = "string"
           /\ Present(n, "minLength") => Len(v.s) >= Get(n, "minLength").n
           /\ Present(n, "maxLength") => Len(v.s) <= Get(n, "maxLength").n
      [] Get(n, "type") = Str("number")  -> v.tag = "number"
      [] Get(n, "type") = Str("boolean") -> v.tag = "boolean"
      [] Get(n, "type") = Str("array") ->
           /\ v.tag = "array"
           /\ Present(n, "minItems") => Len(v.a) >= Get(n, "minItems").n
           /\ Present(n, "maxItems") => Len(v.a) <= Get(n, "maxItems").n
           /\ \A i \in 1..Len(v.a) : Conforms(v.a[i], Get(n, "items"))
      [] Get(n, "type") = Str("object") ->
           /\ v.tag = "object"
           /\ Range(OwnKeys(v)) \subseteq PropertyNames(n)
           /\ RequiredNames(n) \subseteq Range(OwnKeys(v))
           /\ \A k \in Range(OwnKeys(v)) : Conforms(Get(v, k), Get(Get(n, "properties"), k))
      [] OTHER -> FALSE

RECURSIVE ObjectsOnly(_)
\* a chain of object nodes down to a leaf: no array on the way
ObjectsOnly(n) ==
    /\ ~IsArrayNode(n)
    /\ IsObjectNode(n) => \A k \in PropertyNames(n) : ObjectsOnly(Get(Get(n, "properties"), k))

(***************************************************************************)
(* The claims.                                                             *)
(***************************************************************************)

\* C1: for a schema that validateSchema accepted and any data value,
\* validateData returns a {valid, reason} result and raises no exception; the
\* object nodes of an accepted schema may omit `required`.  Stated for the
\* accepted schemas that are schemas of the dialect.
C1_DataValidationNeverThrows ==
    (SchemaAccepted /\ WellFormed(schemaDoc) /\ dataResult.ran) => ~dataResult.thrown

\* C2: in a schema that validateSchema accepted, every node has a type that is
\* one of string, number, boolean, object, array, and the required names of
\* every object node are among its property names.
C2_AcceptedSchemaIsOfTheDialect ==
    SchemaAccepted =>
        \A n \in SchemaNodes(schemaDoc) :
            /\ n.tag = "object"
            /\ Get(n, "type") \in FiveKinds
            /\ IsObjectNode(n) => NewSet(Get(n, "required")) \subseteq
                                     {Str(k) : k \in PropertyNames(n)}

\* The part of C2 that the code does keep: when every `type` is written as a
\* string, the accepted schemas are of the dialect.
C2_StringTypedAcceptedSchemaIsOfTheDialect ==
    (SchemaAccepted /\ \A n \in SchemaNodes(schemaDoc) : Get(n, "type").tag # "array") =>
        \A n \in SchemaNodes(schemaDoc) :
            /\ n.tag = "object"
            /\ Get(n, "type") \in FiveKinds
            /\ IsObjectNode(n) => NewSet(Get(n, "required")) \subseteq
                                     {Str(k) : k \in PropertyNames(n)}

\* C3: validateData at depth 0 finds valid every value that conforms at every
\* level to an accepted schema and whose objects nest 20 levels deep or fewer:
\* no such value is rejected for depth.
C3_ConformingDataWithinDepthIsValid ==
    (/\ SchemaAccepted /\ dataResult.ran
     /\ ObjectsOnly(schemaDoc)
     /\ Conforms(data, schemaDoc)
     /\ Nesting(schemaDoc) <= 20)
    => ReturnsValid(dataResult)

\* C4: validateSchema at depth 0 on an otherwise valid schema returns valid when
\* the deepest node is 20 levels below the root or fewer, and invalid with the
\* depth-exceeded reason when a node is 21 levels below the root or more.
C4_SchemaDepthBoundary ==
    (schemaResult.ran /\ WellFormed(schemaDoc)) =>
        /\ Nesting(schemaDoc) <= 20 => ReturnsValid(schemaResult)
        /\ Nesting(schemaDoc) >= 21 =>
              /\ ReturnsInvalid(schemaResult)
              /\ EndsWith(schemaResult.reason, "Maximum schema depth (20) exceeded")

\* C4's case: a well-formed schema nested 21 levels, through object and array
\* steps, has been validated and rejected.
C4_Witness ==
    /\ schemaResult.ran /\ WellFormed(schemaDoc)
    /\ Nesting(schemaDoc) = 21 /\ ArrayNesting(schemaDoc) = 1
    /\ ReturnsInvalid(schemaResult)

\* C4's other case: a well-formed schema nested exactly 20 levels is accepted.
C4_WitnessAccepted ==
    /\ schemaResult.ran /\ WellFormed(schemaDoc)
    /\ Nesting(schemaDoc) = 20
    /\ ReturnsValid(schemaResult)

NonObject(v) == v.tag # "object"

\* a value that is no object stands where the schema has an object node: at the
\* top level, as an array element, or as a property value
NonObjectAtObjectNode(v, n) ==
    \/ IsObjectNode(n) /\ NonObject(v)
    \/ /\ IsArrayNode(n) /\ IsObjectNode(Get(n, "items"))
       /\ v.tag = "array" /\ \E i \in 1..Len(v.a) : NonObject(v.a[i])
    \/ /\ IsObjectNode(n) /\ v.tag = "object"
       /\ \E k \in Range(OwnKeys(v)) \cap PropertyNames(n) :
             IsObjectNode(Get(Get(n, "properties"), k)) /\ NonObject(Get(v, k))

\* C5: against an accepted object schema, every value that is not an object (a
\* number, a boolean, a string, an array, null) is reported invalid, at the top
\* level, as an array element and as a property value.  Stated for the schemas
\* of the dialect, and as: no such value is found valid.
C5_NonObjectIsInvalid ==
    (/\ SchemaAccepted /\ WellFormed(schemaDoc) /\ dataResult.ran
     /\ NonObjectAtObjectNode(data, schemaDoc))
    => ~dataResult.valid

\* the length breaks a bound that the node states as a number
BelowStated(n, k, length) == Present(n, k) /\ IsNumber(Get(n, k)) /\ length < Get(n, k).n
AboveStated(n, k, length) == Present(n, k) /\ IsNumber(Get(n, k)) /\ length > Get(n, k).n

\* C6: an array shorter than minItems or longer than maxItems, and a string
\* shorter than minLength or longer than maxLength, is invalid, for every bound
\* from 0 on.
C6_LengthBoundsEnforced ==
    (SchemaAccepted /\ dataResult.ran) =>
        /\ (/\ IsArrayNode(schemaDoc) /\ data.tag = "array"
            /\ \/ BelowStated(schemaDoc, "minItems", Len(data.a))
               \/ AboveStated(schemaDoc, "maxItems", Len(data.a)))
           => ReturnsInvalid(dataResult)
        /\ (/\ Get(schemaDoc, "type") = Str("string") /\ data.tag = "string"
            /\ \/ BelowStated(schemaDoc, "minLength", Len(data.s))
               \/ AboveStated(schemaDoc, "maxLength", Len(data.s)))
           => ReturnsInvalid(dataResult)

\* The part of C6 that the code does keep: the bounds from 1 on.
C6_PositiveLengthBoundsEnforced ==
    (SchemaAccepted /\ dataResult.ran) =>
        /\ (/\ IsArrayNode(schemaDoc) /\ data.tag = "array"
            /\ \/ BelowStated(schemaDoc, "minItems", Len(data.a))
               \/ AboveStated(schemaDoc, "maxItems", Len(data.a))
                  /\ Get(schemaDoc, "maxItems").n > 0)
           => ReturnsInvalid(dataResult)
        /\ (/\ Get(schemaDoc, "type") = Str("string") /\ data.tag = "string"
            /\ \/ BelowStated(schemaDoc, "minLength", Len(data.s))
               \/ AboveStated(schemaDoc, "maxLength", Len(data.s))
                  /\ Get(schemaDoc, "maxLength").n > 0)
           => ReturnsInvalid(dataResult)

UndeclaredKey(v, n)   == ~(Range(OwnKeys(v)) \subseteq PropertyNames(n))
MissingRequired(v, n) == ~(RequiredNames(n) \subseteq Range(OwnKeys(v)))

\* C7: for an accepted object schema and an object value, a valid result means
\* that every key of the value is declared and every required name is a key of
\* the value; a value with an undeclared key, or lacking a required name, is
\* reported invalid.  Stated for the schemas of the dialect.
C7_KeysAndRequiredChecked ==
    (/\ SchemaAccepted /\ WellFormed(schemaDoc) /\ dataResult.ran
     /\ IsObjectNode(schemaDoc) /\ data.tag = "object") =>
        /\ ReturnsValid(dataResult) =>
              ~UndeclaredKey(data, schemaDoc) /\ ~MissingRequired(data, schemaDoc)
        /\ (UndeclaredKey(data, schemaDoc) \/ MissingRequired(data, schemaDoc))
              => ReturnsInvalid(dataResult)

\* The part of C7 that the code does keep: a value found valid has declared
\* keys only and every required name.
C7_ValidHasDeclaredKeysAndRequired ==
    (/\ SchemaAccepted /\ dataResult.ran /\ IsObjectNode(schemaDoc) /\ data.tag = "object"
     /\ ReturnsValid(dataResult))
    => ~UndeclaredKey(data, schemaDoc) /\ ~MissingRequired(data, schemaDoc)

\* C8: validateSchema returns invalid when an object node, at the root or
\* nested, has no `properties` or has `properties` without entries.
C8_EmptyPropertiesRejected ==
    (/\ schemaResult.ran
     /\ \E n \in SchemaNodes(schemaDoc) : IsObjectNode(n) /\ PropertyNames(n) = {})
    => ReturnsInvalid(schemaResult)

\* C9: validateSchema on a string, boolean or number node returns invalid if the
\* node has a key outside the allowed set of its type, and valid if all its
\* keys are allowed and minLength/maxLength, if present, are numbers; with such
\* a node nested anywhere, a key outside the allowed set makes the schema
\* invalid.
C9_LeafKeysChecked ==
    schemaResult.ran =>
        /\ IsLeafNode(schemaDoc) =>
              IF LeafWellFormed(schemaDoc)
              THEN ReturnsValid(schemaResult)
              ELSE ReturnsInvalid(schemaResult)
        /\ (\E n \in SchemaNodes(schemaDoc) :
                /\ IsLeafNode(n)
                /\ ~(Range(OwnKeys(n)) \subseteq
                       (IF Get(n, "type") = Str("string")
                        THEN {"type", "default", "minLength", "maxLength"}
                        ELSE {"type", "default"})))
              => ~schemaResult.valid

\* C9's case: a boolean node with the key minLength has been validated and
\* rejected.
C9_Witness ==
    /\ schemaResult.ran
    /\ Get(schemaDoc, "type") = Str("boolean")
    /\ Present(schemaDoc, "minLength")
    /\ ReturnsInvalid(schemaResult)

\* C10: validateSchema returns invalid for an array node with `items` whose
\* minItems or maxItems is present and not a number (the empty string, false
\* and null included).
C10_NonNumberItemsBoundRejected ==
    (/\ schemaResult.ran /\ IsArrayNode(schemaDoc) /\ Present(schemaDoc, "items")
     /\ \E k \in {"minItems", "maxItems"} :
           Present(schemaDoc, k) /\ ~IsNumber(Get(schemaDoc, k)))
    => ReturnsInvalid(schemaResult)

\* The part of C10 that the code does keep: a bound that is a non-empty string
\* (or any other truthy non-number) is rejected.
C10_TruthyNonNumberItemsBoundRejected ==
    (/\ schemaResult.ran /\ IsArrayNode(schemaDoc) /\ Present(schemaDoc, "items")
     /\ \E k \in {"minItems", "maxItems"} :
           Present(schemaDoc, k) /\ ~IsNumber(Get(schemaDoc, k)) /\ Truthy(Get(schemaDoc, k)))
    => ReturnsInvalid(schemaResult)

\* the properties and `items` of an object or array node
Children(n) ==
    (IF IsObjectNode(n)
     THEN {Get(Get(n, "properties"), k) : k \in PropertyNames(n)} ELSE {})
    \cup (IF IsArrayNode(n) /\ Present(n, "items") THEN {Get(n, "items")} ELSE {})

\* the heap nodes that heap[j] refers to
Successors(j) == {c.r : c \in {d \in Children(heap[j]) : d.tag = "ref"}}

RECURSIVE ReachFrom(_, _)
\* the heap nodes reached from those of S in k steps or fewer
ReachFrom(S, k) ==
    IF k = 0 THEN S ELSE ReachFrom(S \cup UNION {Successors(j) : j \in S}, k - 1)

\* the heap nodes of the caller's schema
SchemaHeapNodes == ReachFrom({schemaDoc.r}, MaxNodes)

\* every chain of properties and items from the root goes on for ever: every
\* node of the schema has a child, and every child is a node of the heap
EveryChainCyclic ==
    \A j \in SchemaHeapNodes :
        Children(heap[j]) # {} /\ \A c \in Children(heap[j]) : c.tag = "ref"

\* no node of the schema is reachable from itself
Acyclic == \A j \in SchemaHeapNodes : j \notin ReachFrom(Successors(j), MaxNodes)

RECURSIVE Unfold(_, _)
\* the value v written out as a tree, references followed `fuel` levels down
Unfold(v, fuel) ==
    LET n == Deref(v)
        UnfoldProperties(ps) ==
            Obj([j \in 1..Len(ps.e) |-> Entry(ps.e[j].k, Unfold(ps.e[j].v, fuel - 1))])
    IN IF fuel = 0 \/ n.tag # "object" THEN n
       ELSE Obj([i \in 1..Len(n.e) |->
                   CASE n.e[i].k = "items" ->
                          Entry("items", Unfold(n.e[i].v, fuel - 1))
                     [] n.e[i].k = "properties" ->
                          Entry("properties", UnfoldProperties(n.e[i].v))
                     [] OTHER -> n.e[i]])

\* On a schema without cycles the call followed step by step ends as
\* schema_validate does on the schema written out as a tree.
StepwiseAgreesWithValidate ==
    (schemaResult.ran /\ Acyclic) =>
        schemaResult = schema_validate(Unfold(schemaDoc, MaxNodes + 1), 0)

\* C11: validateSchema ends with a {valid, reason} result on every schema, a
\* self-referential one included: no call in progress has a depth greater than
\* 21, what the outermost call ends with is a result and not an exception, and
\* a schema whose every nesting chain is cyclic is reported invalid.
C11_SchemaValidationIsBoundedAndEndsWithResult ==
    /\ \A k \in 1..Len(stack) : stack[k].depth <= 21
    /\ schemaResult.ran => ~schemaResult.thrown
    /\ (schemaResult.ran /\ EveryChainCyclic) => ReturnsInvalid(schemaResult)

\* The parts of C11 that the code does keep: every call ends,
C11_SchemaValidationEnds == <>schemaResult.ran

\* no call is made with a depth greater than 21, and a schema whose every
\* nesting chain is cyclic is reported invalid with the depth-exceeded reason.
C11_RecursionIsBounded ==
    /\ \A k \in 1..Len(stack) : stack[k].depth <= 21
    /\ (schemaResult.ran /\ EveryChainCyclic) =>
          /\ ReturnsInvalid(schemaResult)
          /\ EndsWith(schemaResult.reason, "Maximum schema depth (20) exceeded")

\* C11's case: a call at depth 21 is in progress on a schema whose every chain
\* is cyclic.
C11_CyclicCallAtDepth21 ==
    /\ EveryChainCyclic
    /\ stack # <<>> /\ Top.depth = 21

=============================================================================
